---- MODULE Spec2Model ----
(***************************************************************************)
(* The command bridge of the IFC Bonsai MCP addon: the socket server of    *)
(* blender_addon/core.py (accept loop, one handler thread per client, the  *)
(* hand-off of every command to Blender's main thread through              *)
(* bpy.app.timers and the bounded poll for its result), the dispatcher of  *)
(* blender_addon/commands.py and the registry of blender_addon/api.        *)
(***************************************************************************)
EXTENDS Integers, Sequences, FiniteSets, TLC

(* ------------------------------ bounds -------------------------------- *)

\* Commands in the system at once: requests a client waits for, plus jobs
\* whose submitter timed out and that the main thread has not run yet.
\* Clients hold back further requests while this many are in the system.
MaxJobs == 2

\* The 30 s timeout of execute_command counted in 10 ms polling intervals.
TimeoutTicks == 1

\* Accept threads alive at once (each start() that binds adds one).
MaxLoops == 2

\* Sockets the client-side connector opens in a run.
MaxSockets == 2

\* Calls of register_command in a run.
MaxRegistrations == 3

\* Fragments a client streams ahead of the handler: two whole messages.
MaxStream == 6

\* Two clients: the least number the concurrency claims speak of.
Conns == {1, 2}

(* --------------------------- Python values ---------------------------- *)

None == [py |-> "None"]
NoData == [py |-> "nodata"]
NoCommand == [isdict |-> FALSE, type |-> "", params |-> [payload |-> 0]]

\* The names a client may put in "type".  All but "nope" are registered.
RegisteredNames == {"ping", "echo", "fail", "quit", "blob"}
Names == RegisteredNames \cup {"nope"}

\* {"type": name, "params": {"payload": c}}: the payload tells the
\* connections apart.
Command(name, c) == [isdict |-> TRUE, type |-> name, params |-> [payload |-> c]]

Commands(c) == {Command(n, c) : n \in Names}

(* ------------------------- response envelopes ------------------------- *)

Success(v) == [status |-> "success", result |-> v]

Error(m) == [status |-> "error", message |-> m]

TimedOut == Error("Command execution timed out")

IsEnvelope(r) ==
    \/ DOMAIN r = {"status", "result"} /\ r.status = "success"
    \/ DOMAIN r = {"status", "message"} /\ r.status = "error"

(* ------------------------------ registry ------------------------------ *)

\* _command_registry after the api modules were imported: name -> entry.
command_registry == [n \in RegisteredNames |-> [handler |-> n, description |-> n]]

NoHandler == "None"

\* Faulty variant of register_command: a name already registered keeps
\* its entry.
register_first(registered, command_name, description, handler_function) ==
    IF command_name \in DOMAIN registered
    THEN registered
    ELSE [n \in DOMAIN registered \cup {command_name} |->
             IF n = command_name
             THEN [handler |-> handler_function,
                   description |-> IF description = None
                                   THEN [str |-> "No description provided"]
                                   ELSE description]
             ELSE registered[n]]

\* register_command(command_name, description)(handler_function) on a
\* registry: the entry of the name is stored or overwritten.  (The
\* handlers of the model have no docstring.)
register_command(registered, command_name, description, handler_function) ==
    [n \in DOMAIN registered \cup {command_name} |->
        IF n = command_name
        THEN [handler |-> handler_function,
              description |-> IF description = None
                              THEN [str |-> "No description provided"]
                              ELSE description]
        ELSE registered[n]]

\* get_command on a registry.
lookup(registered, command_name) ==
    IF command_name \in DOMAIN registered
    THEN registered[command_name].handler
    ELSE NoHandler

\* Faulty variant of get_command: an unknown name falls back to a handler.
get_command_default(command_name) ==
    IF command_name \in DOMAIN command_registry
    THEN command_registry[command_name].handler
    ELSE "echo"

get_command(command_name) ==
    IF command_name \in DOMAIN command_registry
    THEN command_registry[command_name].handler
    ELSE NoHandler

(* ------------------------------ handlers ------------------------------ *)

\* How a call ends: it returns a value, raises an Exception with a text,
\* or raises a BaseException that is no Exception.  "called" is the
\* registered handler the call went through ("None": none).
Returned(v, h) == [kind |-> "return", value |-> v, text |-> "", called |-> h]
Raised(t, h) == [kind |-> "raise", value |-> None, text |-> t, called |-> h]
Aborted(t, h) == [kind |-> "abort", value |-> None, text |-> t, called |-> h]

Pong == [str |-> "pong"]
Blob == [object |-> "bytes"]

\* handler(**params) for the handlers the model registers: ping returns
\* "pong", echo returns its parameters, fail raises an Exception, quit
\* raises SystemExit (as code run by exec() inside execute_code can),
\* blob returns a value json.dumps rejects.
Invoke(handler, params) ==
    CASE handler = "ping" -> Returned(Pong, handler)
      [] handler = "echo" -> Returned(params, handler)
      [] handler = "fail" -> Raised("boom", handler)
      [] handler = "quit" -> Aborted("SystemExit", handler)
      [] OTHER -> Returned(Blob, handler)

(* ----------------------------- dispatcher ----------------------------- *)

\* Faulty variant of commands.execute_command: the handler's value is
\* passed on without the success envelope.
execute_command_bare(command_type, params) ==
    LET handler == get_command(command_type) IN
    IF handler # NoHandler
    THEN LET out == Invoke(handler, params) IN
         CASE out.kind = "return" -> Returned(out.value, out.called)
           [] out.kind = "raise" -> Returned(Error(out.text), out.called)
           [] OTHER -> out
    ELSE Returned(Error("Unknown command type: " \o command_type), NoHandler)

\* commands.execute_command: the envelope it returns, or the
\* BaseException its "except Exception" lets through.
cmd_module_execute_command(command_type, params) ==
    LET handler == get_command(command_type) IN
    IF handler # NoHandler
    THEN LET out == Invoke(handler, params) IN
         CASE out.kind = "return" -> Returned(Success(out.value), out.called)
           [] out.kind = "raise" -> Returned(Error(out.text), out.called)
           [] OTHER -> out
    ELSE Returned(Error("Unknown command type: " \o command_type), NoHandler)

\* BlenderMCPServer._execute_command_internal
execute_command_internal(command) ==
    IF ~command.isdict
    THEN Returned(Error("'list' object has no attribute 'get'"), NoHandler)
    ELSE IF command.type = "ping"
         THEN Returned(Success(Pong), NoHandler)
         ELSE cmd_module_execute_command(command.type, command.params)

\* A result_container as execute_command creates it.
FreshContainer == [result |-> None, done |-> FALSE, called |-> NoHandler, by |-> "-"]

\* Faulty variant of command_executor: the flag is set at the end of the
\* try block and of the except branch, not in a finally block.
command_executor_nofinally(command, container, thread) ==
    LET out == execute_command_internal(command) IN
    [result |-> CASE out.kind = "return" -> out.value
                  [] out.kind = "raise" -> Error(out.text)
                  [] OTHER -> container.result,
     done |-> out.kind # "abort",
     called |-> out.called,
     by |-> thread]

\* command_executor: the try block stores what the dispatch returned; a
\* BaseException skips both the store and the except branch; the finally
\* block sets the flag and, by returning, drops the exception.  "called"
\* and "by" record the handler the dispatch invoked and the thread it ran on.
command_executor(command, container, thread) ==
    LET out == execute_command_internal(command) IN
    [result |-> CASE out.kind = "return" -> out.value
                  [] out.kind = "raise" -> Error(out.text)
                  [] OTHER -> container.result,
     done |-> TRUE,
     called |-> out.called,
     by |-> thread]

(* ------------------------------ framing ------------------------------- *)

\* The bytes of one message, as the three fragments a stream may deliver
\* apart.  The cut between the first and the second lies between two
\* characters; the cut between the second and the third lies inside a
\* multi-byte UTF-8 character of the message.
Encode(command) ==
    << [frag |-> 1, of |-> command],
       [frag |-> 2, of |-> command],
       [frag |-> 3, of |-> command] >>

\* json.dumps(command).encode('utf-8') as the connector writes it:
\* json.dumps escapes every character outside ASCII, so each byte is a
\* character and no cut of the stream falls inside one.
EncodeAscii(command) ==
    << [frag |-> 1, of |-> command, ascii |-> TRUE],
       [frag |-> 2, of |-> command, ascii |-> TRUE],
       [frag |-> 3, of |-> command, ascii |-> TRUE] >>

\* buffer.decode('utf-8') succeeds: no multi-byte character is cut.
Decodable(buffer) ==
    \A i \in 1 .. Len(buffer) :
        "ascii" \notin DOMAIN buffer[i] =>
            /\ buffer[i].frag = 2 =>
                   /\ i < Len(buffer)
                   /\ buffer[i + 1] = [buffer[i] EXCEPT !.frag = 3]
            /\ buffer[i].frag = 3 =>
                   /\ i > 1
                   /\ buffer[i - 1] = [buffer[i] EXCEPT !.frag = 2]

\* json.loads(buffer.decode('utf-8')): UnicodeDecodeError when the bytes do
\* not decode, the value when the text is exactly one complete message,
\* JSONDecodeError otherwise (incomplete text, or extra data after a value).
json_loads(buffer) ==
    IF ~Decodable(buffer)
    THEN [ok |-> FALSE, error |-> "UnicodeDecodeError", value |-> NoCommand]
    ELSE IF /\ Len(buffer) = 3
            /\ buffer \in {Encode(buffer[1].of), EncodeAscii(buffer[1].of)}
         THEN [ok |-> TRUE, error |-> "", value |-> buffer[1].of]
         ELSE [ok |-> FALSE, error |-> "JSONDecodeError", value |-> NoCommand]

\* str(e) of the UnicodeDecodeError.
CannotDecode == "'utf-8' codec can't decode bytes: unexpected end of data"

\* json.dumps(response) raises TypeError on a value it cannot serialize.
Serializable(response) ==
    ~("result" \in DOMAIN response /\ response.result = Blob)

\* What _handle_client puts on the socket for the value execute_command
\* returned.
Written(response) ==
    IF Serializable(response)
    THEN response
    ELSE Error("Object of type bytes is not JSON serializable")


(* ------------------------------- state -------------------------------- *)

VARIABLES
    running,     \* self.running
    sock,        \* self.socket: "none" or "open"
    loops,       \* threads executing _server_loop
    conn,        \* per client: "idle", "backlog", "open", "peerclosed", "closed"
    pc,          \* per client: where its _handle_client thread stands
    inbox,       \* per client: bytes sent and not yet read by recv
    buffer,      \* per client: the handler's buffer
    command,     \* per client: the command its handler is working on
    container,   \* per client: the result_container of its execute_command
    elapsed,     \* per client: polling intervals slept in execute_command
    response,    \* per client: the value execute_command returned
    outbox,      \* per client: the response written and not yet read
    timers,      \* bpy.app.timers: the registered command_executor closures
    lastStart,   \* how the last bind attempt of start() ended
    csock,       \* BlenderConnection.sock: 0 (None) or the socket it caches
    made,        \* sockets BlenderConnection.connect has created so far
    broken,      \* the sockets on which a send or a receive has failed
    cpc,         \* where a call of send_command stands
    rbuf,        \* receive_full_response: the bytes in its buffer
    report,      \* what the last send_command gave its caller
    call,        \* the arguments of the current call of send_command
    wire,        \* what the current call has written to its socket
    registry,    \* _command_registry as the registrations build it
    registrations \* the calls of register_command so far, in order

\* The state of the client-side connector.
connector == << csock, made, broken, cpc, rbuf, report, call, wire >>

\* The state of the registry.
registrar == << registry, registrations >>

vars == << running, sock, loops, conn, pc, inbox, buffer, command, container,
           elapsed, response, outbox, timers, lastStart, connector,
           registrar >>

Init ==
    /\ running = FALSE
    /\ sock = "none"
    /\ loops = 0
    /\ conn = [c \in Conns |-> "idle"]
    /\ pc = [c \in Conns |-> "none"]
    /\ inbox = [c \in Conns |-> << >>]
    /\ buffer = [c \in Conns |-> << >>]
    /\ command = [c \in Conns |-> NoCommand]
    /\ container = [c \in Conns |-> FreshContainer]
    /\ elapsed = [c \in Conns |-> 0]
    /\ response = [c \in Conns |-> None]
    /\ outbox = [c \in Conns |-> NoData]
    /\ timers = {}
    /\ lastStart = "none"
    /\ csock = 0
    /\ made = 0
    /\ broken = {}
    /\ cpc = "idle"
    /\ rbuf = "empty"
    /\ report = [kind |-> "none", text |-> ""]
    /\ call = [type |-> "", params |-> None]
    /\ wire = << >>
    /\ registry = [n \in {} |-> None]
    /\ registrations = << >>

(* ---------------------------- registrations --------------------------- *)

\* The names, handlers and descriptions the registrations draw from.
RegistrationNames == {"ping", "echo"}
RegistrationHandlers == {"h1", "h2"}
RegistrationDescriptions == {None, [str |-> "text"]}

\* One module-level @register_command(name, description) def handler.
Register(name, description, handler) ==
    /\ Len(registrations) < MaxRegistrations
    /\ registry' = register_command(registry, name, description, handler)
    /\ registrations' = Append(registrations,
                               [name |-> name, handler |-> handler])
    /\ UNCHANGED << connector, lastStart, running, sock, loops, conn, pc,
                    inbox, buffer, command, container, elapsed, response,
                    outbox, timers >>

(* ----------------------------- lifecycle ------------------------------ *)

\* Faulty variant of stop(): the sockets of the connected clients are
\* closed with the listening socket.
stop_clients ==
    /\ running' = FALSE
    /\ sock' = "none"
    /\ conn' = [c \in Conns |-> IF conn[c] = "idle" THEN "idle" ELSE "closed"]

\* stop(): clears the flag and closes the listening socket, which resets
\* the connections still waiting in its backlog.
stop ==
    /\ running' = FALSE
    /\ sock' = "none"
    /\ conn' = [c \in Conns |-> IF conn[c] = "backlog" THEN "closed" ELSE conn[c]]

\* Faulty variant of start(): the except branch does not call stop().
StartNoCleanup ==
    /\ \/ /\ ~running
          /\ running' = TRUE
          /\ sock' = "open"
          /\ loops' = loops + 1
          /\ lastStart' = "started"
          /\ UNCHANGED conn
       \/ /\ ~running
          /\ running' = TRUE
          /\ sock' = "none"
          /\ lastStart' = "failed"
          /\ UNCHANGED << loops, conn >>
       \/ /\ running
          /\ UNCHANGED << lastStart, running, sock, loops, conn >>
    /\ UNCHANGED << connector, registrar, pc, inbox, buffer, command, container, elapsed,
                    response, outbox, timers >>

\* start(): bind and listen succeed and the accept thread starts; or they
\* fail and the except branch calls stop(); or the server already runs.
Start ==
    /\ \/ /\ ~running
          /\ running' = TRUE
          /\ sock' = "open"
          /\ loops' = loops + 1
          /\ lastStart' = "started"
          /\ UNCHANGED conn
       \/ /\ ~running
          /\ stop
          /\ lastStart' = "failed"
          /\ UNCHANGED loops
       \/ /\ running
          /\ UNCHANGED << lastStart, running, sock, loops, conn >>
    /\ UNCHANGED << connector, registrar, pc, inbox, buffer, command, container, elapsed, response,
                    outbox, timers >>

\* One iteration of _server_loop that accepts a client and starts its
\* handler thread.
Accept(c) ==
    /\ loops > 0
    /\ running
    /\ sock = "open"
    /\ conn[c] = "backlog"
    /\ conn' = [conn EXCEPT ![c] = "open"]
    /\ pc' = [pc EXCEPT ![c] = "top"]
    /\ UNCHANGED << connector, registrar, lastStart, running, sock, loops, inbox, buffer, command, container,
                    elapsed, response, outbox, timers >>

\* stop() on a server in any state.  Its join of the accept thread is
\* bounded: stop() returns whether or not the thread has left its loop.
Stop ==
    /\ stop
    /\ UNCHANGED << connector, registrar, lastStart, loops, pc, inbox, buffer, command,
                    container, elapsed, response, outbox, timers >>

\* start(), while the model has room for another accept thread.
LifeStart == loops < MaxLoops /\ Start

\* Accept threads that are not between accept() and the start of the
\* handler thread.
AcceptFree == loops - Cardinality({c \in Conns : conn[c] = "accepted"})

\* _server_loop: accept() returns a client.
AcceptClient(c) ==
    /\ AcceptFree > 0
    /\ running
    /\ sock = "open"
    /\ conn[c] = "backlog"
    /\ conn' = [conn EXCEPT ![c] = "accepted"]
    /\ UNCHANGED << connector, registrar, lastStart, running, sock, loops, pc, inbox,
                    buffer, command, container, elapsed, response, outbox,
                    timers >>

\* _server_loop: the handler thread of an accepted client is started.
SpawnHandler(c) ==
    /\ conn[c] = "accepted"
    /\ conn' = [conn EXCEPT ![c] = "open"]
    /\ pc' = [pc EXCEPT ![c] = "top"]
    /\ UNCHANGED << connector, registrar, lastStart, running, sock, loops, inbox, buffer,
                    command, container, elapsed, response, outbox, timers >>

\* _server_loop: "while self.running" fails and the thread ends.
AcceptExit ==
    /\ AcceptFree > 0
    /\ ~running
    /\ loops' = loops - 1
    /\ UNCHANGED << connector, registrar, lastStart, running, sock, conn, pc, inbox,
                    buffer, command, container, elapsed, response, outbox,
                    timers >>

(* ------------------------------ clients ------------------------------- *)

ClientConnect(c) ==
    /\ conn[c] = "idle"
    /\ sock = "open"
    /\ conn' = [conn EXCEPT ![c] = "backlog"]
    /\ UNCHANGED << connector, registrar, lastStart, running, sock, loops, pc, inbox, buffer, command,
                    container, elapsed, response, outbox, timers >>

\* Timers whose submitter has timed out.
Orphans == {t \in timers : t.orphan > 0}

\* The client's request is on its way or being worked on.
InFlight(c) ==
    \/ inbox[c] # << >>
    \/ buffer[c] # << >>
    \/ pc[c] \in {"submitted", "sleep"}

Load == Cardinality({c \in Conns : InFlight(c)}) + Cardinality(Orphans)

\* The client has no request outstanding and has read every response.
ClientIdle(c) ==
    /\ conn[c] = "open"
    /\ pc[c] \in {"top", "recv"}
    /\ inbox[c] = << >>
    /\ buffer[c] = << >>
    /\ outbox[c] = NoData

\* A client sends one command and then waits for its response.
ClientSend(c) ==
    /\ ClientIdle(c)
    /\ Load < MaxJobs
    /\ \E cmd \in Commands(c) : inbox' = [inbox EXCEPT ![c] = Encode(cmd)]
    /\ UNCHANGED << connector, registrar, lastStart, running, sock, loops, conn, pc, buffer, command, container,
                    elapsed, response, outbox, timers >>

ClientRecv(c) ==
    /\ outbox[c] # NoData
    /\ outbox' = [outbox EXCEPT ![c] = NoData]
    /\ UNCHANGED << connector, registrar, lastStart, running, sock, loops, conn, pc, inbox, buffer, command,
                    container, elapsed, response, timers >>

ClientClose(c) ==
    /\ ClientIdle(c)
    /\ conn' = [conn EXCEPT ![c] = "peerclosed"]
    /\ UNCHANGED << connector, registrar, lastStart, running, sock, loops, pc, inbox, buffer, command, container,
                    elapsed, response, outbox, timers >>

(* --------------------------- streaming peers -------------------------- *)

\* The connections whose peer streams fragments.
StreamConns == {1}

\* The commands of a peer that streams its messages in fragments.
StreamCommands(c) == {Command("ping", c), Command("echo", c)}

\* What the peer has written and the handler has not yet parsed.
Unparsed(c) == buffer[c] \o inbox[c]

\* The fragments that may follow on the stream: the next fragment of the
\* message under way or, between two messages, the first of any message.
NextFragments(c) ==
    LET n == Len(Unparsed(c)) IN
    IF n > 0 /\ Unparsed(c)[n].frag < 3
    THEN {[Unparsed(c)[n] EXCEPT !.frag = @ + 1]}
    ELSE {[frag |-> 1, of |-> cmd] : cmd \in StreamCommands(c)}

\* A peer writes the next fragment of its stream, whether or not the
\* response to an earlier message has arrived.
ClientWrite(c) ==
    /\ conn[c] = "open"
    /\ outbox[c] = NoData
    /\ Len(Unparsed(c)) < MaxStream
    /\ Cardinality(timers) < MaxJobs
    /\ \E f \in NextFragments(c) : inbox' = [inbox EXCEPT ![c] = Append(@, f)]
    /\ UNCHANGED << connector, registrar, lastStart, running, sock, loops, conn, pc, buffer, command, container,
                    elapsed, response, outbox, timers >>

\* A peer closes its end at any point of its stream.
ClientHangUp(c) ==
    /\ conn[c] = "open"
    /\ conn' = [conn EXCEPT ![c] = "peerclosed"]
    /\ UNCHANGED << connector, registrar, lastStart, running, sock, loops, pc, inbox, buffer, command, container,
                    elapsed, response, outbox, timers >>

\* The connection is reset: the next recv of the handler raises.
ClientReset(c) ==
    /\ conn[c] = "open"
    /\ conn' = [conn EXCEPT ![c] = "reset"]
    /\ UNCHANGED << connector, registrar, lastStart, running, sock, loops, pc, inbox, buffer, command, container,
                    elapsed, response, outbox, timers >>

(* ------------------------- connection handler ------------------------- *)

\* finally: client.close()
HandlerExit(c) ==
    /\ pc' = [pc EXCEPT ![c] = "exit"]
    /\ conn' = [conn EXCEPT ![c] = "closed"]

\* while self.running:
LoopTop(c) ==
    /\ pc[c] = "top"
    /\ IF running
       THEN pc' = [pc EXCEPT ![c] = "recv"] /\ UNCHANGED conn
       ELSE HandlerExit(c)
    /\ UNCHANGED << connector, registrar, lastStart, running, sock, loops, inbox, buffer, command, container,
                    elapsed, response, outbox, timers >>

\* Faulty variant of the hand-off: the handler thread dispatches the
\* command itself instead of registering a timer.
SubmitInline(c, cmd) ==
    /\ container' = [container EXCEPT ![c] =
                         command_executor(cmd, FreshContainer, "handler")]
    /\ timers' = timers

\* execute_command up to bpy.app.timers.register(command_executor): a
\* fresh container, and a closure over it and the command that waits for
\* the main thread.  (orphan = 0: the submitter still holds the container.)
Submit(c, cmd) ==
    /\ container' = [container EXCEPT ![c] = FreshContainer]
    /\ timers' = timers \cup {[owner |-> c, command |-> cmd, orphan |-> 0]}

\* data = client.recv(4096) and what follows it: a zero-length read or a
\* socket error ends the loop; a buffer that does not parse is kept; a
\* buffer that does not decode is kept too, but the generic except branch
\* answers it with an error response; a buffer that parses is cleared and
\* its command handed to execute_command.
Recv(c) ==
    /\ pc[c] = "recv"
    /\ \/ /\ IF conn[c] = "reset"
                THEN TRUE
                ELSE inbox[c] = << >> /\ conn[c] = "peerclosed"
          /\ HandlerExit(c)
          /\ UNCHANGED << inbox, buffer, command, container, elapsed, timers,
                          response >>
       \/ /\ inbox[c] # << >>
          /\ conn[c] # "reset"
          /\ LET data == buffer[c] \o inbox[c]
                 parsed == json_loads(data)
             IN IF parsed.ok
                THEN /\ buffer' = [buffer EXCEPT ![c] = << >>]
                     /\ command' = [command EXCEPT ![c] = parsed.value]
                     /\ Submit(c, parsed.value)
                     /\ elapsed' = [elapsed EXCEPT ![c] = 0]
                     /\ pc' = [pc EXCEPT ![c] = "submitted"]
                     /\ UNCHANGED response
                ELSE /\ buffer' = [buffer EXCEPT ![c] = data]
                     /\ IF parsed.error = "JSONDecodeError"
                        THEN /\ pc' = [pc EXCEPT ![c] = "top"]
                             /\ UNCHANGED response
                        ELSE /\ pc' = [pc EXCEPT ![c] = "send"]
                             /\ response' = [response EXCEPT
                                                 ![c] = Error(CannotDecode)]
                     /\ UNCHANGED << command, container, elapsed, timers >>
          /\ inbox' = [inbox EXCEPT ![c] = << >>]
          /\ UNCHANGED conn
    /\ UNCHANGED << connector, registrar, lastStart, running, sock, loops, outbox >>

\* Faulty variant of the return of execute_command: the timer of the call
\* is unregistered, so a job not yet run is cancelled.
Unregister(c) == {t \in timers : ~(t.owner = c /\ t.orphan = 0)}

\* execute_command returns and drops its reference to the container: a
\* closure still registered keeps it alone from now on.
Abandon(c) ==
    LET k == CHOOSE i \in 1 .. MaxJobs :
                 /\ \A t \in Orphans : t.orphan # i
                 /\ \A j \in 1 .. (i - 1) : \E t \in Orphans : t.orphan = j
    IN { IF t.owner = c /\ t.orphan = 0 THEN [t EXCEPT !.orphan = k] ELSE t :
           t \in timers }

\* The closure of c's current call is still registered.
Pending(c) == \E t \in timers : t.owner = c /\ t.orphan = 0

Return(c, value) ==
    /\ response' = [response EXCEPT ![c] = value]
    /\ timers' = Abandon(c)
    /\ container' = [container EXCEPT ![c] = FreshContainer]
    /\ elapsed' = [elapsed EXCEPT ![c] = 0]
    /\ pc' = [pc EXCEPT ![c] = "send"]

\* return result_container['result']
ReturnResult(c) == Return(c, container[c].result)

\* return {"status": "error", "message": "Command execution timed out"}
ReturnTimeout(c) == Return(c, TimedOut)

\* Faulty variant of the poll: execute_command returns what the container
\* holds without waiting for the flag.
PollFirstNoWait(c) ==
    /\ pc[c] = "submitted"
    /\ response' = [response EXCEPT ![c] = container[c].result]
    /\ pc' = [pc EXCEPT ![c] = "send"]
    /\ UNCHANGED << connector, registrar, lastStart, running, sock, loops, conn, inbox, buffer, command,
                    container, elapsed, outbox, timers >>

\* The first test of "while not result_container['done']".
PollFirst(c) ==
    /\ pc[c] = "submitted"
    /\ IF container[c].done
       THEN ReturnResult(c)
       ELSE /\ pc' = [pc EXCEPT ![c] = "sleep"]
            /\ UNCHANGED << container, elapsed, response, timers >>
    /\ UNCHANGED << connector, registrar, lastStart, running, sock, loops, conn, inbox, buffer, command, outbox >>

\* Faulty variant of the poll: the loop has no timeout test.
WakeNoTimeout(c) ==
    /\ pc[c] = "sleep"
    /\ IF container[c].done
       THEN ReturnResult(c)
       ELSE /\ elapsed' = [elapsed EXCEPT ![c] = elapsed[c] + 1]
            /\ UNCHANGED << pc, container, response, timers >>
    /\ UNCHANGED << connector, registrar, lastStart, running, sock, loops, conn, inbox, buffer, command, outbox >>

\* time.sleep(0.01), then the timeout test, then the next test of the flag.
WakeAndCheck(c) ==
    /\ pc[c] = "sleep"
    /\ IF elapsed[c] + 1 > TimeoutTicks
       THEN ReturnTimeout(c)
       ELSE IF container[c].done
            THEN ReturnResult(c)
            ELSE /\ elapsed' = [elapsed EXCEPT ![c] = elapsed[c] + 1]
                 /\ UNCHANGED << pc, container, response, timers >>
    /\ UNCHANGED << connector, registrar, lastStart, running, sock, loops, conn, inbox, buffer, command, outbox >>

\* Faulty variant of the write: after an error envelope the handler
\* leaves its loop and closes the connection.
SendAndClose(c) ==
    /\ pc[c] = "send"
    /\ outbox' = [outbox EXCEPT ![c] = Written(response[c])]
    /\ response' = [response EXCEPT ![c] = None]
    /\ command' = [command EXCEPT ![c] = NoCommand]
    /\ IF "message" \in DOMAIN Written(response[c])
       THEN HandlerExit(c)
       ELSE pc' = [pc EXCEPT ![c] = "top"] /\ UNCHANGED conn
    /\ UNCHANGED << connector, registrar, lastStart, running, sock, loops, inbox, buffer, container,
                    elapsed, timers >>

\* client.sendall(json.dumps(response).encode('utf-8')), with the except
\* branch that answers the TypeError of json.dumps by an error envelope.
\* Nothing reaches a client that has closed its end or whose connection
\* is reset: a sendall that raises is caught by the same except branch,
\* whose own write fails in silence.  Either way the loop goes on.
Send(c) ==
    /\ pc[c] = "send"
    /\ outbox' = [outbox EXCEPT ![c] =
           IF conn[c] = "open" THEN Written(response[c]) ELSE outbox[c]]
    /\ response' = [response EXCEPT ![c] = None]
    /\ command' = [command EXCEPT ![c] = NoCommand]
    /\ pc' = [pc EXCEPT ![c] = "top"]
    /\ UNCHANGED << connector, registrar, lastStart, running, sock, loops, conn, inbox, buffer, container,
                    elapsed, timers >>

\* The write of the response at a moment when the client has taken every
\* earlier response off the connection.
SendUnread(c) == outbox[c] = NoData /\ Send(c)

(* ------------------------ client-side connector ---------------------- *)

\* str(e) of the failures send_command meets.
BrokenPipe == "[Errno 32] Broken pipe"
ConnectionReset == "[Errno 104] Connection reset by peer"
ReceiveTimeout == "Timeout while receiving data from Blender"
ExpectingValue == "Expecting value: line 1 column 1 (char 0)"
NoneHasNoGet == "'NoneType' object has no attribute 'get'"

\* The Python value {}.
EmptyDict == [py |-> "{}"]

\* The arguments callers pass: a command name and its params, which may
\* be left out (None) or empty.
CallArguments ==
    [type : {"ping", "echo"}, params : {None, EmptyDict, [payload |-> 1]}]

\* x or y
Or(x, y) == IF x \in {None, EmptyDict} THEN y ELSE x

\* command = {"type": command_type, "params": params or {}}
CommandOf(command_type, params) ==
    [type |-> command_type, params |-> Or(params, EmptyDict)]

\* The complete JSON objects a peer may answer with: success envelopes
\* (one whose payload is itself an {"error": ...} mapping, as handlers
\* return, and one without a result), and error envelopes with and
\* without a message.
Replies ==
    {Success(Pong), Success([error |-> "boom"]), [status |-> "success"],
     Error("boom"), [status |-> "error"]}

\* response.get(key, default)
Get(reply, key, default) ==
    IF key \in DOMAIN reply THEN reply[key] ELSE default

\* Faulty variant of the decoding: the status is not looked at.
SurfaceResult(reply) == Get(reply, "result", EmptyDict)

\* What send_command returns for a decoded response: {"error": message}
\* for an error status, the result payload otherwise.
Surface(reply) ==
    IF Get(reply, "status", None) = "error"
    THEN [error |-> Get(reply, "message", "Unknown error")]
    ELSE Get(reply, "result", EmptyDict)

\* What send_command gives its caller: a returned value, or an exception
\* with the prefix of its message and the text of the failure behind it.
Report(kind, text) == [kind |-> kind, text |-> text]

\* The report of a call that returns: the value, and the response it was
\* decoded from.
Returns(reply) ==
    [kind |-> "return",
     text |-> IF Get(reply, "status", None) = "error" THEN "error" ELSE "result",
     value |-> Surface(reply),
     of |-> reply]

\* send_command ends and gives the caller a report; self.sock is kept or
\* set to None; the socket is marked when the failure was on the socket.
Finish(r, keep, failed) ==
    /\ report' = r
    /\ csock' = IF keep THEN csock ELSE 0
    /\ broken' = IF failed THEN broken \cup {csock} ELSE broken
    /\ cpc' = "idle"
    /\ rbuf' = "empty"
    /\ UNCHANGED << made, call >>

\* except socket.error
OnSocketError(text) ==
    Finish(Report("Connection to Blender lost", text), FALSE, TRUE)

\* except json.JSONDecodeError
OnJSONDecodeError(text, failed) ==
    Finish(Report("Invalid response from Blender", text), TRUE, failed)

\* Faulty variant of the generic branch: the socket stays cached.
OnExceptionKeep(text, failed) ==
    Finish(Report("Communication error with Blender", text), TRUE, failed)

\* except Exception
OnException(text, failed) ==
    Finish(Report("Communication error with Blender", text), FALSE, failed)

\* send_command up to the try block: the cached socket is used, or
\* connect() opens one, or connect() fails and ConnectionError is raised.
Call ==
    /\ cpc = "idle"
    /\ \E a \in CallArguments : call' = a
    /\ wire' = << >>
    /\ IF csock # 0
       THEN cpc' = "send" /\ UNCHANGED << csock, made, report >>
       ELSE \/ /\ made < MaxSockets
               /\ made' = made + 1
               /\ csock' = made + 1
               /\ cpc' = "send"
               /\ UNCHANGED report
            \/ /\ report' = Report("ConnectionError", "Not connected to Blender")
               /\ UNCHANGED << csock, made, cpc >>
    /\ UNCHANGED << broken, rbuf >>
    /\ UNCHANGED << registrar, lastStart, running, sock, loops, conn, pc, inbox,
                    buffer, command, container, elapsed, response, outbox,
                    timers >>

\* Faulty variant of the write: a failed sendall is tried once more.
SendAllRetry ==
    /\ cpc = "send"
    /\ \/ /\ cpc' = "recv"
          /\ wire' = Append(wire, CommandOf(call.type, call.params))
          /\ UNCHANGED << csock, made, broken, rbuf, report, call >>
       \/ /\ wire' = Append(wire, CommandOf(call.type, call.params))
          /\ IF Len(wire) < 1
             THEN UNCHANGED << csock, made, broken, cpc, rbuf, report, call >>
             ELSE OnSocketError(BrokenPipe)
    /\ UNCHANGED << registrar, lastStart, running, sock, loops, conn, pc, inbox,
                    buffer, command, container, elapsed, response, outbox,
                    timers >>

\* self.sock.sendall(...): the command is written and the call goes on
\* to receive; or the socket raises, with the command written in part or
\* not at all.
SendAll ==
    /\ cpc = "send"
    /\ \/ /\ cpc' = "recv"
          /\ wire' = Append(wire, CommandOf(call.type, call.params))
          /\ UNCHANGED << csock, made, broken, rbuf, report, call >>
       \/ /\ \/ wire' = Append(wire, CommandOf(call.type, call.params))
             \/ wire' = wire
          /\ OnSocketError(BrokenPipe)
    /\ UNCHANGED << registrar, lastStart, running, sock, loops, conn, pc, inbox,
                    buffer, command, container, elapsed, response, outbox,
                    timers >>

\* One pass of the loop of receive_full_response and, when the loop ends,
\* the rest of send_command.  A chunk leaves the buffer incomplete, cut
\* inside a character, or a complete JSON value (a success envelope, an
\* error envelope, or null); or the peer closes, the wait times out, or
\* the socket raises.
Receive ==
    /\ cpc = "recv"
    /\ \/ /\ rbuf' = "partial"
          /\ UNCHANGED << csock, made, broken, cpc, report, call >>
       \/ OnException("'utf-8' codec can't decode", FALSE)
       \/ \E r \in Replies : Finish(Returns(r), TRUE, FALSE)
       \/ OnException(NoneHasNoGet, FALSE)
       \/ OnJSONDecodeError(IF rbuf = "empty" THEN ExpectingValue
                            ELSE "Unterminated string", TRUE)
       \/ OnException(ReceiveTimeout, TRUE)
       \/ OnSocketError(ConnectionReset)
    /\ UNCHANGED wire
    /\ UNCHANGED << registrar, lastStart, running, sock, loops, conn, pc, inbox,
                    buffer, command, container, elapsed, response, outbox,
                    timers >>

\* disconnect()
Disconnect ==
    /\ cpc = "idle"
    /\ csock # 0
    /\ csock' = 0
    /\ UNCHANGED << made, broken, cpc, rbuf, report, call, wire >>
    /\ UNCHANGED << registrar, lastStart, running, sock, loops, conn, pc, inbox,
                    buffer, command, container, elapsed, response, outbox,
                    timers >>

(* ------------------- connector and server together ------------------- *)

\* json.loads(json.dumps(command)) on the server's side: the command a
\* call writes as the handler parses it.
Parsed(written) == Command(written.type, written.params.payload)

\* The jobs registered, and the connections with bytes not yet parsed.
LinkLoad ==
    Cardinality(timers) + Cardinality({c \in Conns : Unparsed(c) # << >>})

\* The fragments of the command under way on a connection that have not
\* reached the server: they arrive before anything written later.
Remainder(c) ==
    LET n == Len(Unparsed(c)) IN
    IF n > 0 /\ Unparsed(c)[n].frag < 3
    THEN [k \in 1 .. (3 - Unparsed(c)[n].frag) |->
             [Unparsed(c)[n] EXCEPT !.frag = @ + k]]
    ELSE << >>

\* send_command up to the try block, for the calls of one caller that
\* sends echo commands with alternating payloads.  connect() succeeds
\* when the server listens: the connection waits in its backlog.
LinkCall ==
    /\ cpc = "idle"
    /\ LinkLoad < MaxJobs
    /\ csock # 0 => Len(Unparsed(csock)) + Len(Remainder(csock)) + 3 <= MaxStream
    /\ call' = [type |-> "echo",
                params |-> [payload |-> IF call.params = [payload |-> 1]
                                        THEN 2 ELSE 1]]
    /\ wire' = << >>
    /\ IF csock # 0
       THEN cpc' = "send" /\ UNCHANGED << csock, made, report, conn >>
       ELSE IF /\ made < MaxSockets
               /\ made + 1 \in Conns
               /\ sock = "open"
               /\ conn[made + 1] = "idle"
            THEN /\ made' = made + 1
                 /\ csock' = made + 1
                 /\ conn' = [conn EXCEPT ![made + 1] = "backlog"]
                 /\ cpc' = "send"
                 /\ UNCHANGED report
            ELSE /\ report' = Report("ConnectionError", "Not connected to Blender")
                 /\ UNCHANGED << csock, made, cpc, conn >>
    /\ UNCHANGED << broken, rbuf >>
    /\ UNCHANGED << registrar, lastStart, running, sock, loops, pc, inbox,
                    buffer, command, container, elapsed, response, outbox,
                    timers >>

\* self.sock.sendall(...): the first fragment of the command reaches the
\* server, the rest is on its way; on a connection that is reset or
\* closed the write raises, or goes through and its bytes are lost.
LinkSendAll ==
    /\ cpc = "send"
    /\ IF conn[csock] \in {"backlog", "open"}
       THEN /\ wire' = Append(wire, CommandOf(call.type, call.params))
            /\ inbox' = [inbox EXCEPT ![csock] =
                   Append(@ \o Remainder(csock),
                          EncodeAscii(Parsed(CommandOf(call.type, call.params)))[1])]
            /\ cpc' = "recv"
            /\ UNCHANGED << csock, made, broken, rbuf, report, call >>
       ELSE /\ \/ OnSocketError(BrokenPipe) /\ UNCHANGED wire
               \/ /\ wire' = Append(wire, CommandOf(call.type, call.params))
                  /\ cpc' = "recv"
                  /\ UNCHANGED << csock, made, broken, rbuf, report, call >>
            /\ UNCHANGED inbox
    /\ UNCHANGED << registrar, lastStart, running, sock, loops, conn, pc,
                    buffer, command, container, elapsed, response, outbox,
                    timers >>

\* The next fragment of a command under way arrives at the server.
Deliver(c) ==
    /\ conn[c] \in {"backlog", "open"}
    /\ Unparsed(c) # << >>
    /\ Unparsed(c)[Len(Unparsed(c))].frag < 3
    /\ \E f \in NextFragments(c) : inbox' = [inbox EXCEPT ![c] = Append(@, f)]
    /\ UNCHANGED << connector, registrar, lastStart, running, sock, loops, conn,
                    pc, buffer, command, container, elapsed, response, outbox,
                    timers >>

\* receive_full_response and the rest of send_command: the response that
\* has arrived on the socket is decoded and returned; or the wait times
\* out; or, on a connection that was reset, recv raises; or, on one the
\* server has closed, recv returns nothing and the empty buffer does not
\* parse.
LinkReceive ==
    /\ cpc = "recv"
    /\ \/ /\ outbox[csock] # NoData
          /\ outbox' = [outbox EXCEPT ![csock] = NoData]
          /\ Finish(Returns(outbox[csock]), TRUE, FALSE)
       \/ /\ OnException(ReceiveTimeout, TRUE)
          /\ UNCHANGED outbox
       \/ /\ conn[csock] \in {"reset", "closed"}
          /\ OnSocketError(ConnectionReset)
          /\ UNCHANGED outbox
       \/ /\ conn[csock] = "closed"
          /\ outbox[csock] = NoData
          /\ OnJSONDecodeError(ExpectingValue, TRUE)
          /\ UNCHANGED outbox
    /\ UNCHANGED << wire, conn >>
    /\ UNCHANGED << registrar, lastStart, running, sock, loops, pc, inbox,
                    buffer, command, container, elapsed, response, timers >>

(* ---------------------------- main thread ----------------------------- *)

\* Faulty variant of the result slot: one container shared by all calls.
SharedTarget(t) == 1

\* The container the closure of a timer writes: its submitter's while the
\* submitter waits, afterwards one nobody else references (0).
Target(t) == IF t.orphan = 0 THEN t.owner ELSE 0

\* Faulty variant of the main-thread step: the closure itself writes the
\* response to the socket of the client that sent the command.
HostRunAndWrite(t) ==
    /\ t \in timers
    /\ timers' = timers \ {t}
    /\ container' =
           IF Target(t) \in Conns
           THEN [container EXCEPT ![Target(t)] = command_executor(t.command, @, "main")]
           ELSE container
    /\ outbox' = [outbox EXCEPT ![t.owner] =
                      Written(command_executor(t.command, FreshContainer, "main").result)]
    /\ UNCHANGED << connector, registrar, lastStart, running, sock, loops, conn, pc, inbox,
                    buffer, command, elapsed, response >>

\* Faulty variant of the main-thread step: the callback returns an
\* interval and stays registered.
HostRunAgain(t) ==
    /\ t \in timers
    /\ timers' = timers
    /\ container' =
           IF Target(t) \in Conns
           THEN [container EXCEPT ![Target(t)] = command_executor(t.command, @, "main")]
           ELSE container
    /\ UNCHANGED << connector, registrar, lastStart, running, sock, loops, conn,
                    pc, inbox, buffer, command, elapsed, response, outbox >>

\* Blender's main thread takes a registered timer and runs
\* command_executor; the timer returns None and is not rescheduled.
HostRun(t) ==
    /\ t \in timers
    /\ timers' = timers \ {t}
    /\ container' =
           IF Target(t) \in Conns
           THEN [container EXCEPT ![Target(t)] = command_executor(t.command, @, "main")]
           ELSE container
    /\ UNCHANGED << connector, registrar, lastStart, running, sock, loops, conn, pc, inbox, buffer, command,
                    elapsed, response, outbox >>

(* --------------------------- specification ---------------------------- *)

Next ==
    \/ Start
    \/ \E c \in Conns : Accept(c)
    \/ \E c \in Conns : ClientConnect(c)
    \/ \E c \in Conns : ClientSend(c)
    \/ \E c \in Conns : ClientRecv(c)
    \/ \E c \in Conns : ClientClose(c)
    \/ \E c \in Conns : LoopTop(c)
    \/ \E c \in Conns : Recv(c)
    \/ \E c \in Conns : PollFirst(c)
    \/ \E c \in Conns : WakeAndCheck(c)
    \/ \E c \in Conns : Send(c)
    \/ \E t \in timers : HostRun(t)

Spec == Init /\ [][Next]_vars

\* The server with peers that stream fragments, pipeline messages, stop in
\* the middle of a message, hang up or are reset.
FrameNext ==
    \/ Start
    \/ \E c \in StreamConns : Accept(c)
    \/ \E c \in StreamConns : ClientConnect(c)
    \/ \E c \in StreamConns : ClientWrite(c)
    \/ \E c \in StreamConns : ClientRecv(c)
    \/ \E c \in StreamConns : ClientHangUp(c)
    \/ \E c \in StreamConns : ClientReset(c)
    \/ \E c \in StreamConns : LoopTop(c)
    \/ \E c \in StreamConns : Recv(c)
    \/ \E c \in StreamConns : PollFirst(c)
    \/ \E c \in StreamConns : WakeAndCheck(c)
    \/ \E c \in StreamConns : Send(c)
    \/ \E t \in timers : HostRun(t)

FrameSpec == Init /\ [][FrameNext]_vars

\* The life cycle: start() and stop() in any order, the accept threads
\* step by step, clients that connect and hang up.
LifeNext ==
    \/ LifeStart
    \/ Stop
    \/ AcceptExit
    \/ \E c \in Conns : ClientConnect(c)
    \/ \E c \in Conns : AcceptClient(c)
    \/ \E c \in Conns : SpawnHandler(c)
    \/ \E c \in Conns : ClientHangUp(c)
    \/ \E c \in Conns : LoopTop(c)
    \/ \E c \in Conns : Recv(c)

LifeSpec == Init /\ [][LifeNext]_vars

\* The accept threads take their steps.
LifeFairSpec ==
    /\ LifeSpec
    /\ WF_vars(AcceptExit)
    /\ \A c \in Conns : WF_vars(SpawnHandler(c))

\* The connections open while the server is stopped and started.
StopConns == {1}

\* The server stopped and started while a client is connected and its
\* commands are under way.
StopNext ==
    \/ LifeStart
    \/ Stop
    \/ AcceptExit
    \/ \E c \in StopConns : Accept(c)
    \/ \E c \in StopConns : ClientConnect(c)
    \/ \E c \in StopConns : ClientSend(c)
    \/ \E c \in StopConns : ClientRecv(c)
    \/ \E c \in StopConns : ClientClose(c)
    \/ \E c \in StopConns : LoopTop(c)
    \/ \E c \in StopConns : Recv(c)
    \/ \E c \in StopConns : PollFirst(c)
    \/ \E c \in StopConns : WakeAndCheck(c)
    \/ \E c \in StopConns : Send(c)
    \/ \E t \in timers : HostRun(t)

StopSpec == Init /\ [][StopNext]_vars

\* The handler threads take their steps, and the client sooner or later
\* reads its response and then sends another command or disconnects.
StopFairSpec ==
    /\ StopSpec
    /\ \A c \in StopConns :
          /\ WF_vars(LoopTop(c))
          /\ WF_vars(Recv(c))
          /\ WF_vars(PollFirst(c))
          /\ WF_vars(WakeAndCheck(c))
          /\ WF_vars(Send(c))
          /\ WF_vars(ClientRecv(c))
          /\ WF_vars(ClientSend(c) \/ ClientClose(c))

\* One BlenderConnection and the server it talks to, over a network that
\* delivers a command in up to three pieces.
LinkNext ==
    \/ Start
    \/ LinkCall
    \/ LinkSendAll
    \/ LinkReceive
    \/ \E c \in Conns : Deliver(c)
    \/ \E c \in Conns : ClientReset(c)
    \/ \E c \in Conns : Accept(c)
    \/ \E c \in Conns : LoopTop(c)
    \/ \E c \in Conns : Recv(c)
    \/ \E c \in Conns : PollFirst(c)
    \/ \E c \in Conns : WakeAndCheck(c)
    \/ \E c \in Conns : SendUnread(c)
    \/ \E t \in timers : HostRun(t)

LinkSpec == Init /\ [][LinkNext]_vars

\* The client-side connector against a peer that may do anything.
ClientNext == Call \/ SendAll \/ Receive \/ Disconnect

ClientSpec == Init /\ [][ClientNext]_vars

\* The registry under any sequence of registrations.
RegistryNext ==
    \E name \in RegistrationNames, description \in RegistrationDescriptions,
       handler \in RegistrationHandlers :
        Register(name, description, handler)

RegistrySpec == Init /\ [][RegistryNext]_vars

\* The jobs whose run by the main thread is followed up.
Jobs ==
    {[owner |-> c, command |-> Command("echo", c), orphan |-> k] :
        c \in Conns, k \in 0 .. MaxJobs}

\* The main thread keeps ticking: a registered job is run.
HostFairSpec ==
    /\ Spec
    /\ \A t \in Jobs : WF_vars(HostRun(t))

\* The scheduler's threads take their steps; the main thread need not.
FairSpec ==
    /\ Spec
    /\ \A c \in Conns : WF_vars(PollFirst(c)) /\ WF_vars(WakeAndCheck(c))

(* ------------------------------- claims ------------------------------- *)

\* The result the dispatch of a command stores in a fresh container.
Expected(cmd) == command_executor(cmd, FreshContainer, "main").result

\* What the handler a command names does with the command's parameters.
Outcome(cmd) == Invoke(get_command(cmd.type), cmd.params)

\* C1: every dispatch of a command runs on the main thread, inside a timer
\* callback: a container is finished only by a step that takes a timer of
\* its call off bpy.app.timers, and the thread that ran it is the main one.
C1_DispatchOnMainThread ==
    [][\A c \in Conns :
          (~container[c].done /\ container'[c].done) =>
              /\ container'[c].by = "main"
              /\ \E t \in timers \ timers' :
                     t.owner = c /\ t.command = command[c]]_vars

\* C1 witness: a registered handler has been invoked, by the main thread,
\* for a command a handler thread submitted.
C1_Witness ==
    \E c \in Conns :
        /\ container[c].done
        /\ container[c].called = "echo"
        /\ container[c].by = "main"
        /\ pc[c] \in {"submitted", "sleep"}

\* C2: no cross-talk.  The response a handler is about to write, and the
\* response a client finds on its connection, is the result of a command
\* that was received on that same connection (or the timeout envelope).
C2_NoCrossTalk ==
    \A c \in Conns :
        /\ pc[c] = "send" =>
               /\ command[c] \in Commands(c)
               /\ \/ response[c] = TimedOut
                  \/ response[c] = Expected(command[c])
        /\ outbox[c] # NoData =>
               \E cmd \in Commands(c) :
                   \/ outbox[c] = TimedOut
                   \/ outbox[c] = Written(Expected(cmd))

\* C2 witness: both connections have an echo answered at the same time,
\* each with its own payload.
C2_Witness ==
    /\ outbox[1] = Success([payload |-> 1])
    /\ pc[2] = "send"
    /\ response[2] = Success([payload |-> 2])

\* C3: for a registered command whose handler returns a value v the
\* dispatch yields exactly {"status": "success", "result": v}.
C3_RegisteredSuccess ==
    \A c \in Conns :
        ( /\ container[c].done
          /\ command[c].isdict
          /\ command[c].type \in DOMAIN command_registry
          /\ Outcome(command[c]).kind = "return" ) =>
            container[c].result =
                [status |-> "success", result |-> Outcome(command[c]).value]

\* C3 witness: the dispatch of echo has stored the success envelope that
\* carries the parameters echo returned.
C3_Witness ==
    \E c \in Conns :
        /\ container[c].done
        /\ command[c].type = "echo"
        /\ container[c].called = "echo"
        /\ container[c].result = Success([payload |-> c])

\* C4: for a name that is not registered the dispatch yields exactly
\* {"status": "error", "message": "Unknown command type: <name>"} and
\* invokes no handler.
C4_UnknownCommand ==
    \A c \in Conns :
        ( /\ container[c].done
          /\ command[c].isdict
          /\ command[c].type \notin DOMAIN command_registry ) =>
            /\ container[c].result =
                   [status |-> "error",
                    message |-> "Unknown command type: " \o command[c].type]
            /\ container[c].called = NoHandler

\* C4 witness: the dispatch of the unregistered "nope" has finished with
\* the unknown-command envelope.
C4_Witness ==
    \E c \in Conns :
        /\ container[c].done
        /\ command[c].type = "nope"
        /\ container[c].result = Error("Unknown command type: nope")

\* C5 as the specification states it: whatever a handler raises, the
\* dispatch ends with the error envelope that carries the failure's text.
C5_EveryFailureBecomesAnError ==
    \A c \in Conns :
        ( /\ container[c].done
          /\ command[c].isdict
          /\ get_command(command[c].type) # NoHandler
          /\ Outcome(command[c]).kind # "return" ) =>
            container[c].result = Error(Outcome(command[c]).text)

\* C6: an error envelope does not end the connection.  While a client
\* holds an error response, its connection is open and its handler is back
\* in the loop, with an empty buffer and nothing left of the failed
\* command, ready to read the next one.
C6_OpenAfterError ==
    \A c \in Conns :
        (outbox[c] # NoData /\ DOMAIN outbox[c] = {"status", "message"}) =>
            /\ conn[c] = "open"
            /\ pc[c] \in {"top", "recv"}
            /\ buffer[c] = << >>
            /\ command[c] = NoCommand
            /\ response[c] = None

\* C6 witness: a client holds the envelope of an unknown command and the
\* handler of its connection is waiting in recv for the next command.
C6_Witness ==
    \E c \in Conns :
        /\ outbox[c] = Error("Unknown command type: nope")
        /\ pc[c] = "recv"
        /\ conn[c] = "open"

\* C7 as the specification states it: every response written to a client
\* is a well-formed envelope, whatever the handler did.
C7_EveryResponseIsAnEnvelope ==
    \A c \in Conns : outbox[c] # NoData => IsEnvelope(outbox[c])

\* C8: when the wait runs out before the main thread ran the job, the
\* submitter returns exactly the timed-out envelope and the job stays
\* registered; when the main thread runs such a job later, its result
\* reaches no container, no response and no connection.
C8_TimeoutLeavesJob ==
    [][/\ \A c \in Conns :
            (pc[c] = "sleep" /\ pc'[c] = "send" /\ Pending(c)) =>
                /\ response'[c] =
                       [status |-> "error",
                        message |-> "Command execution timed out"]
                /\ Cardinality(timers') = Cardinality(timers)
                /\ \E t \in timers' :
                       t.owner = c /\ t.command = command[c] /\ t.orphan > 0
       /\ \A t \in Orphans :
            t \notin timers' =>
                /\ container' = container
                /\ response' = response
                /\ outbox' = outbox]_vars

\* C8 witness: a submitter has returned the timed-out envelope while the
\* job of its command is still registered with the main thread.
C8_Witness ==
    \E c \in Conns :
        /\ pc[c] = "send"
        /\ response[c] = TimedOut
        /\ \E t \in Orphans : t.owner = c /\ t.command = command[c]

\* C9: the submitter never waits indefinitely.  It has slept at most
\* TimeoutTicks intervals while it waits, and, whether or not the main
\* thread ever runs the job, every wait ends with a return.
C9_BoundedWait ==
    /\ [](\A c \in Conns :
             pc[c] \in {"submitted", "sleep"} => elapsed[c] <= TimeoutTicks)
    /\ \A c \in Conns :
           (pc[c] \in {"submitted", "sleep"}) ~> (pc[c] = "send")

\* C9 witness: the main thread has not run the job, the submitter has
\* slept the whole timeout and returned the timed-out envelope.
C9_Witness ==
    \E c \in Conns :
        /\ pc[c] = "send"
        /\ response[c] = TimedOut
        /\ \E t \in Orphans : t.owner = c
        /\ timers = {t \in timers : t.owner = c}

\* C10 as the specification states it: whenever a handler is about to
\* read, the main thread has executed every job of that connection.
C10_RoundTripBeforeRead ==
    \A c \in Conns :
        pc[c] \in {"top", "recv"} => \A t \in timers : t.owner # c

\* C10, amended: a handler does not read until execute_command has
\* returned for the previous command and its response is written; a
\* connection has at most one job whose submitter still waits, and the
\* only jobs of a connection still registered while its handler reads are
\* those whose submitter timed out.
C10_OneCallAtATime ==
    \A c \in Conns :
        /\ Cardinality({t \in timers : t.owner = c /\ t.orphan = 0}) <= 1
        /\ Pending(c) => pc[c] \in {"submitted", "sleep"}
        /\ pc[c] \in {"top", "recv"} =>
               /\ ~Pending(c)
               /\ ~container[c].done
               /\ command[c] = NoCommand
               /\ response[c] = None

\* C10 witness: a handler is about to read the next command while the
\* job of an earlier one, whose submitter timed out, is still registered.
C10_Witness ==
    \E c \in Conns :
        /\ pc[c] = "recv"
        /\ inbox[c] # << >>
        /\ \E t \in Orphans : t.owner = c

\* The bytes are a proper, non-empty beginning of one message.
Incomplete(data) ==
    /\ Len(data) \in 1 .. 2
    /\ data = SubSeq(Encode(data[1].of), 1, Len(data))

\* C11 as the specification states it: while the buffer holds only the
\* beginning of a message, wherever the peer's writes cut it, the handler
\* is reading: it has dispatched nothing and has nothing to write.
C11_SilentWhileIncomplete ==
    \A c \in Conns :
        Incomplete(buffer[c]) =>
            /\ pc[c] \in {"top", "recv", "exit"}
            /\ response[c] = None
            /\ ~Pending(c)

\* C12 as the specification states it: a read that finds two complete
\* commands back-to-back in the buffer dispatches the first of them.
C12_FirstOfTwoIsDispatched ==
    [][\A c \in Conns :
          ( /\ pc[c] = "recv"
            /\ pc'[c] # "recv"
            /\ inbox[c] # << >>
            /\ conn[c] # "reset"
            /\ Len(Unparsed(c)) = 6
            /\ Unparsed(c) = Encode(Unparsed(c)[1].of) \o Encode(Unparsed(c)[4].of) ) =>
              /\ pc'[c] = "submitted"
              /\ command'[c] = Unparsed(c)[1].of
              /\ \E t \in timers' :
                     t.owner = c /\ t.orphan = 0 /\ t.command = Unparsed(c)[1].of]_vars

\* C13 as the specification states it: a stream that does not complete a
\* JSON value leaves the server running and its accept loop alive; a read
\* that leaves the buffer without a complete value is followed by more
\* reading, with no response; and a handler that has left its loop, for
\* whatever reason, has closed its client socket, while no socket is closed
\* under a handler still in its loop.
C13_StallThenCleanClose ==
    [][/\ running => running' /\ sock' = sock /\ loops' >= loops
       /\ \A c \in Conns :
            /\ ( /\ pc[c] = "recv"
                 /\ pc'[c] \notin {"recv", "exit"}
                 /\ ~json_loads(Unparsed(c)).ok ) =>
                   /\ pc'[c] = "top"
                   /\ response'[c] = None
                   /\ outbox'[c] = outbox[c]
                   /\ timers' = timers
            /\ pc'[c] = "exit" <=> conn'[c] = "closed"]_vars

C15_NothingAfterStop ==
    /\ [][(running /\ ~running') => sock' = "none"]_vars
    /\ [][(~running /\ ~running') =>
              \A c \in Conns :
                  /\ conn'[c] = "accepted" => conn[c] = "accepted"
                  /\ pc[c] = "none" => pc'[c] = "none"]_vars
    /\ <>[](~running) => <>[](loops = 0)

\* C16 as the specification states it: over any sequence of start() and
\* stop() at most one accept thread executes the accept loop.
C16_OneAcceptThread == loops <= 1

\* C17: the socket of an accepted client is used by its own handler thread
\* only.  Bytes are taken from it only by that handler's recv, a response
\* is put on it only by that handler's write (a step that runs no timer),
\* it is closed only by that handler leaving its loop, and a step of one
\* handler leaves every other connection's socket alone.
C17_SocketOwnedByHandler ==
    [][\A c \in Conns :
          /\ Len(inbox'[c]) < Len(inbox[c]) => pc[c] = "recv"
          /\ (outbox'[c] # outbox[c] /\ outbox'[c] # NoData) =>
                 /\ pc[c] = "send"
                 /\ pc'[c] = "top"
                 /\ outbox'[c] = Written(response[c])
                 /\ timers' = timers
                 /\ container' = container
          /\ (conn[c] \in {"open", "peerclosed", "reset"} /\ conn'[c] = "closed") =>
                 /\ pc[c] \in {"top", "recv"}
                 /\ pc'[c] = "exit"
          /\ pc'[c] # pc[c] =>
                 \A d \in Conns \ {c} :
                     /\ inbox'[d] = inbox[d]
                     /\ outbox'[d] = outbox[d]
                     /\ conn'[d] = conn[d]]_vars

\* C17 witness: a handler has written the response of a command the main
\* thread ran, while the other connection's command is still with the
\* scheduler.
C17_Witness ==
    /\ outbox[1] = Success([payload |-> 1])
    /\ pc[1] \in {"top", "recv"}
    /\ pc[2] \in {"submitted", "sleep"}
    /\ \E t \in timers : t.owner = 2 /\ t.orphan = 0

\* C18: the completion flag of a job changes once, from pending to done.
\* While a call waits, a flag that is done stays done with its result; the
\* flag becomes done only in a step of the main thread; it is done exactly
\* when the job's timer has run, whatever the handler did; and a job whose
\* submitter timed out is run once and never registered again.
C18_FlagSetOnce ==
    [][/\ \A c \in Conns :
            LET waits == pc[c] \in {"submitted", "sleep"}
                waits2 == pc'[c] \in {"submitted", "sleep"}
            IN /\ (waits /\ waits2 /\ container[c].done) =>
                      container'[c] = container[c]
               /\ (waits /\ ~container[c].done /\ container'[c].done) =>
                      /\ waits2
                      /\ pc'[c] = pc[c]
                      /\ container'[c].by = "main"
               /\ waits2 =>
                      (container'[c].done <=>
                          ~\E t \in timers' : t.owner = c /\ t.orphan = 0)
       /\ \A t \in Orphans : t \in timers' \/ timers' = timers \ {t}
       /\ \A t \in timers' :
            t.orphan > 0 =>
                \/ t \in timers
                \/ [t EXCEPT !.orphan = 0] \in timers]_vars

\* C18 witness: the main thread has set the flag of a job whose handler
\* raised SystemExit, while a job whose submitter timed out is registered.
C18_Witness ==
    \E c \in Conns :
        /\ container[c].done
        /\ command[c].type = "quit"
        /\ pc[c] = "sleep"
        /\ Orphans # {}

\* The failures of the socket during send and receive.
SocketFailures == {BrokenPipe, ConnectionReset, ReceiveTimeout,
                   ExpectingValue, "Unterminated string"}

\* C19 as the specification states it: when send_command has failed on a
\* send error, a receive error, a receive timeout or a peer that closed
\* before the response was complete, the cached socket is cleared, and no
\* call sends on a socket that has failed.
C19_FailureClearsSocket ==
    /\ (cpc = "idle" /\ report.text \in SocketFailures) => csock = 0
    /\ cpc = "send" => csock \notin broken

\* C20 as the specification states it: a receive timeout reaches the
\* caller as a kind of its own, not as the generic communication error and
\* not as a lost connection; a response that does not parse is a kind of
\* its own too.
C20_TimeoutIsItsOwnKind ==
    /\ report.text = ReceiveTimeout =>
           report.kind \notin {"Communication error with Blender",
                               "Connection to Blender lost"}
    /\ report.text \in {ExpectingValue, "Unterminated string"} =>
           report.kind = "Invalid response from Blender"
    /\ report.text \in {BrokenPipe, ConnectionReset} =>
           report.kind = "Connection to Blender lost"

\* C21: send_command writes {"type": name, "params": params}, with an
\* empty mapping for params when the caller gave none; when the decoded
\* envelope says success the call returns exactly its result payload;
\* when it says error the call gives the caller the mapping
\* {"error": message} with the envelope's message, never the envelope or a
\* result payload of it.
C21_WritesCommandReturnsPayload ==
    /\ \A i \in 1 .. Len(wire) :
          /\ wire[i].type = call.type
          /\ wire[i].params = IF call.params = None THEN EmptyDict ELSE call.params
          /\ wire[i].params # None
    /\ (cpc = "idle" /\ report.kind = "return") =>
          /\ (report.of.status = "success" /\ "result" \in DOMAIN report.of) =>
                 report.value = report.of.result
          /\ report.of.status = "error" =>
                 /\ DOMAIN report.value = {"error"}
                 /\ "message" \in DOMAIN report.of =>
                        report.value.error = report.of.message
                 /\ report.value # report.of
                 /\ "result" \in DOMAIN report.of =>
                        report.value # report.of.result

\* C21 witness: a call made without params has written its command and
\* returned the failure mapping of an error envelope.
C21_Witness ==
    /\ cpc = "idle"
    /\ call.params = None
    /\ wire = << [type |-> call.type, params |-> EmptyDict] >>
    /\ report.kind = "return"
    /\ report.of = Error("boom")
    /\ report.value = [error |-> "boom"]

\* C22: no automatic retry.  One call writes its command to the socket at
\* most once: nothing is written before sendall, the call that receives
\* has written exactly once, and a call that has ended, by a return, a
\* timeout or any failure, has written at most once.
C22_WritesAtMostOnce ==
    /\ Len(wire) <= 1
    /\ cpc = "send" => wire = << >>
    /\ cpc = "recv" => Len(wire) = 1

\* C22 witness: a call has ended in a receive timeout after one write.
C22_Witness ==
    /\ cpc = "idle"
    /\ report.text = ReceiveTimeout
    /\ Len(wire) = 1

\* The registrations of a name, as positions in the order of the calls.
RegistrationsOf(name) ==
    {i \in 1 .. Len(registrations) : registrations[i].name = name}

\* C23: after any sequence of registrations a lookup returns the handler
\* of the most recent registration of the name, and nothing for a name
\* never registered; a duplicate registration is no error and replaces the
\* entry; and a registration leaves the entries of all other names as
\* they were.
C23_LastWriterWins ==
    /\ [](\A name \in RegistrationNames \cup {"nope"} :
             IF RegistrationsOf(name) = {}
             THEN lookup(registry, name) = NoHandler
             ELSE \E i \in RegistrationsOf(name) :
                      /\ \A j \in RegistrationsOf(name) : j <= i
                      /\ lookup(registry, name) = registrations[i].handler)
    /\ [][registrations' # registrations =>
              LET new == registrations'[Len(registrations')] IN
              /\ lookup(registry', new.name) = new.handler
              /\ \A name \in DOMAIN registry \ {new.name} :
                     /\ name \in DOMAIN registry'
                     /\ registry'[name] = registry[name]
              /\ DOMAIN registry' = DOMAIN registry \cup {new.name}]_vars

\* C23 witness: "ping" was registered twice with different handlers, the
\* second one is looked up, and the entry of "echo", registered in
\* between, is in place.
C23_Witness ==
    /\ Len(registrations) = 3
    /\ registrations[1] = [name |-> "ping", handler |-> "h1"]
    /\ registrations[2] = [name |-> "echo", handler |-> "h1"]
    /\ registrations[3] = [name |-> "ping", handler |-> "h2"]
    /\ lookup(registry, "ping") = "h2"
    /\ lookup(registry, "echo") = "h1"

\* C24 as the specification states it: the result slot is written before
\* the flag is set.  A container whose flag is set holds a value the
\* dispatch or the except branch stored, and a submitter that saw the flag
\* returns that value, never the None the slot was created with.
C24_ResultBeforeFlag ==
    \A c \in Conns :
        /\ container[c].done =>
               /\ container[c].result # None
               /\ IsEnvelope(container[c].result)
        /\ (pc[c] = "send" /\ response[c] # TimedOut) =>
               response[c] # None

\* C25 as the specification states it: the read that parses a complete
\* message empties the buffer in the same step, before the message is
\* dispatched; a command is dispatched and waited for with the buffer
\* empty; and when a response is written, no byte it answers is left in
\* the buffer to be parsed again.
C25_BufferClearedOnParse ==
    [][\A c \in Conns :
          /\ (pc[c] = "recv" /\ pc'[c] = "submitted") =>
                 /\ buffer'[c] = << >>
                 /\ Unparsed(c) = Encode(command'[c])
          /\ pc'[c] \in {"submitted", "sleep"} => buffer'[c] = << >>
          /\ (pc[c] = "send" /\ pc'[c] = "top") => buffer[c] = << >>]_vars

\* C26 as the specification states it: a zero-length read, a read that
\* raises and a response write that raises each end the handler's loop:
\* the step closes the socket and the handler reads and writes no more.
C26_SocketFailureEndsLoop ==
    [][\A c \in Conns :
          /\ ( /\ pc[c] = "recv"
               /\ pc'[c] # "recv"
               /\ \/ conn[c] = "reset"
                  \/ conn[c] = "peerclosed" /\ inbox[c] = << >> ) =>
                 pc'[c] = "exit" /\ conn'[c] = "closed"
          /\ (pc[c] = "send" /\ pc'[c] # "send" /\ conn[c] = "reset") =>
                 pc'[c] = "exit" /\ conn'[c] = "closed"
          /\ pc[c] = "exit" =>
                 /\ pc'[c] = "exit"
                 /\ inbox'[c] = inbox[c]
                 /\ buffer'[c] = buffer[c]
                 /\ response'[c] = response[c]]_vars

\* The handler thread of a connection exists and has not left its loop.
Alive(c) == pc[c] \in {"top", "recv", "submitted", "sleep", "send"}

\* C27: stop() closes no client socket and moves no handler.  While the
\* server is stopped an open connection is closed only by its own handler
\* leaving the loop (or by its peer); a handler that comes back to the
\* loop test leaves instead of reading again, so it answers at most the
\* message its pending read delivered; and, given that its peer sooner or
\* later sends or disconnects, a handler alive on a stopped server leaves
\* the loop, unless the server is started again first.
C27_HandlersLeaveOnTheirOwn ==
    /\ [][~running' =>
              \A c \in Conns :
                  (Alive(c) /\ pc'[c] = pc[c]) =>
                      conn'[c] \in {conn[c], "peerclosed"}]_vars
    /\ [][(running /\ ~running') =>
              \A c \in Conns :
                  Alive(c) =>
                      /\ conn'[c] = conn[c]
                      /\ pc'[c] = pc[c]
                      /\ inbox'[c] = inbox[c]
                      /\ outbox'[c] = outbox[c]]_vars
    /\ [][\A c \in Conns :
              (~running /\ pc[c] = "top" /\ pc'[c] # "top") =>
                  pc'[c] = "exit" /\ conn'[c] = "closed"]_vars
    /\ \A c \in Conns :
          (Alive(c) /\ ~running) ~> (pc[c] = "exit" \/ running)

\* C27 witness: the server is stopped, and a handler that was alive has
\* written the response of a command and then left the loop and closed
\* its socket, with the response still unread by the client.
C27_Witness ==
    /\ ~running
    /\ sock = "none"
    /\ pc[1] = "exit"
    /\ conn[1] = "closed"
    /\ outbox[1] = Success([payload |-> 1])

\* C28 as the specification states it: execute_command returns the
\* timed-out envelope only when the flag of its job is unset at that
\* moment; when the main thread has finished the job, the submitter
\* returns the result the job stored.
C28_TimeoutOnlyIfUnfinished ==
    [][\A c \in Conns :
          (pc[c] \in {"submitted", "sleep"} /\ pc'[c] = "send") =>
              IF container[c].done
              THEN response'[c] = container[c].result
              ELSE response'[c] = TimedOut]_vars

\* C29: the read that parses a command registers one job for it, and jobs
\* are registered by nothing else; the return of execute_command, timed
\* out or not, removes no job and registers none; the step of the main
\* thread that finishes a job takes it off the timers for good; and, when
\* the main thread keeps ticking, every registered job is run.
C29_HandedOverOnce ==
    /\ [][\A c \in Conns :
              (pc[c] = "recv" /\ pc'[c] = "submitted") =>
                  LET job == [owner |-> c, command |-> command'[c], orphan |-> 0]
                  IN job \notin timers /\ timers' = timers \cup {job}]_vars
    /\ [][Cardinality(timers') > Cardinality(timers) =>
              /\ Cardinality(timers') = Cardinality(timers) + 1
              /\ \E c \in Conns : pc[c] = "recv" /\ pc'[c] = "submitted"]_vars
    /\ [][\A c \in Conns :
              (pc[c] \in {"submitted", "sleep"} /\ pc'[c] = "send") =>
                  /\ Cardinality(timers') = Cardinality(timers)
                  /\ \A t \in timers :
                         \/ t \in timers'
                         \/ /\ t.owner = c
                            /\ t.orphan = 0
                            /\ \E k \in 1 .. MaxJobs :
                                   [t EXCEPT !.orphan = k] \in timers' \ timers]_vars
    /\ [][\A c \in Conns :
              (~container[c].done /\ container'[c].done) =>
                  \E t \in timers :
                      /\ t.owner = c
                      /\ t.orphan = 0
                      /\ timers' = timers \ {t}]_vars
    /\ [][Cardinality(timers') < Cardinality(timers) =>
              /\ Cardinality(timers') = Cardinality(timers) - 1
              /\ timers' \subseteq timers
              /\ pc' = pc]_vars
    /\ \A t \in Jobs : (t \in timers) ~> (t \notin timers)

\* C29 witness: the submitter of a command timed out and sent the
\* timed-out envelope, and the job, still registered, has since been left
\* alone while the same connection had its next command run.
C29_Witness ==
    \E c \in Conns :
        /\ pc[c] = "sleep"
        /\ container[c].done
        /\ container[c].called = "echo"
        /\ \E t \in Orphans : t.owner = c /\ t.command = command[c]

\* C30: over any sequence of calls on one BlenderConnection, the response
\* a call returns from is the one the server produced for that call's own
\* command (for echo: the success envelope with the params the call
\* sent, or the server's timed-out envelope), never the response to the
\* command of an earlier call, also after calls that ended in a receive
\* timeout, a parse failure or a socket error.
C30_ResponseBelongsToCall ==
    (cpc = "idle" /\ report.kind = "return") =>
        /\ report.of \in {Expected(Parsed(CommandOf(call.type, call.params))),
                          TimedOut}
        /\ report.of.status = "success" => report.value = call.params

\* C30 witness: the first call ended in a receive timeout and its socket
\* was dropped; the response to its command arrived on that socket and
\* stays there; the second call, on a new connection, has returned the
\* result of its own command.
C30_Witness ==
    /\ cpc = "idle"
    /\ csock = 2
    /\ 1 \in broken
    /\ outbox[1] = Success([payload |-> 1])
    /\ call.params = [payload |-> 2]
    /\ report.kind = "return"
    /\ report.value = [payload |-> 2]

====
